---- MODULE Spec2Model ----
(***************************************************************************)
(* redis-tance: the schema-aware set collection (lib/Primitives/RedisSet.js)*)
(* over a remote set store reached through one pipelined connection per   *)
(* client.                                                                 *)
(*                                                                         *)
(* JavaScript values are encoded so that every two values the model ever   *)
(* compares have the same shape:                                           *)
(*   - an optional value (undefined or a value) is <<>> or <<v>>;          *)
(*   - a type name is a sequence of characters, so that toLowerCase and    *)
(*     slice act on it;                                                    *)
(*   - a store key is the sequence of the pieces of its text;              *)
(*   - a document is a function from the names of the fields it has to     *)
(*     their values; a string member "x" is [string |-> "x"];              *)
(*   - a member on the wire is the canonical text of the document: the     *)
(*     sequence of its <<field, value>> pairs in field order.              *)
(***************************************************************************)
EXTENDS Integers, Sequences, FiniteSets, TLC

VARIABLES
    store,           \* key -> set of wire members; a key with no member does not exist
    ttl,             \* key -> remaining seconds, for the keys that carry an expiry
    pipe,            \* client -> commands sent on its connection, not yet executed
    proc,            \* client -> the call it is in: position, locals, result
    calls,           \* client -> number of calls started
    uuids,           \* number of uuid() values drawn so far
    faults,          \* number of commands the store has rejected
    sets,            \* the collection handles the callers hold
    currentVersion,  \* the schema chain's currentVersion
    journal          \* history: what the add calls that succeeded were given,
                     \* whether anything else has changed the store, whether an
                     \* expiry has run down, what other clients' commands the
                     \* store executed between a modify's snapshot and its writes
                     \* (and which of these writes were still to come), and how
                     \* many commands of its last modify a client has still queued

vars == <<store, ttl, pipe, proc, calls, uuids, faults, sets, currentVersion, journal>>

----------------------------------------------------------------------------
(* Bounds of the model.                                                    *)

MaxCalls == 3        \* calls one client starts
MaxUuid == 2         \* uuid() values drawn
MaxFaults == 1       \* commands the store rejects
MaxBatch == 2        \* documents in one batch add
MaxTicks == 2        \* longest expiry, in seconds, a collection is given
MaxOperands == 1     \* operands of one group operation
MaxLateCalls == 1    \* calls one client starts on a store that holds members already
MaxGroupCalls == 2   \* calls of one client among which its group operations fall

----------------------------------------------------------------------------
(* Optional values and strings.                                            *)

Undefined == <<>>

Some(x) == <<x>>

Min(a, b) == IF a <= b THEN a ELSE b

UpperCase == <<"A", "B", "C", "D", "E", "F", "G", "H", "I", "J", "K", "L", "M",
               "N", "O", "P", "Q", "R", "S", "T", "U", "V", "W", "X", "Y", "Z">>

LowerCase == <<"a", "b", "c", "d", "e", "f", "g", "h", "i", "j", "k", "l", "m",
               "n", "o", "p", "q", "r", "s", "t", "u", "v", "w", "x", "y", "z">>

\* String.prototype.toLowerCase on one character
LowerChar(ch) ==
    IF \E i \in 1..Len(UpperCase) : UpperCase[i] = ch
    THEN LowerCase[CHOOSE i \in 1..Len(UpperCase) : UpperCase[i] = ch]
    ELSE ch

toLowerCase(s) == [i \in 1..Len(s) |-> LowerChar(s[i])]

\* String.prototype.slice(0, n)
slice(s, n) == SubSeq(s, 1, Min(n, Len(s)))

\* the orders in which the elements of a finite set can be listed
RECURSIVE Orders(_)
Orders(S) ==
    IF S = {} THEN {<<>>}
    ELSE UNION {{<<x>> \o r : r \in Orders(S \ {x})} : x \in S}

Range(s) == {s[i] : i \in DOMAIN s}

----------------------------------------------------------------------------
(* Schemas.  lib/Schema is not among the source files: the chain is the     *)
(* employee chain of the schema tests, its operations follow the            *)
(* specification (4.1).                                                    *)

TypeLimit == 18

Employee == <<"E", "m", "p">>

Pet == <<"P", "e", "t">>

\* a type name longer than the key keeps: "EmployeeOfTheMonthAward"
LongType == <<"E", "m", "p", "l", "o", "y", "e", "e", "O", "f", "T", "h", "e",
              "M", "o", "n", "t", "h", "A", "w", "a", "r", "d">>

StringType == <<"s", "t", "r", "i", "n", "g">>

\* Schema.String(): the trivial schema of unstructured string members
StringSchema == [kind |-> "Schema", type |-> StringType]

\* a version-aware schema (class MigratingSchema) of the given type
MigratingSchema(type) == [kind |-> "MigratingSchema", type |-> type]

\* the versions the employee chain of the schema tests has
ChainLength == 3

\* the "required" list of each version of the employee chain
Required(v) ==
    IF v >= 3 THEN {"firstname", "lastname", "fullname"}
    ELSE {"firstname", "lastname"}

\* mutant of upgradeFn: version 3 leaves fullname out
upgradeFnSalaryOnly(v, doc) ==
    IF v = 2 THEN [f \in DOMAIN doc \cup {"salary"} |->
                      IF f = "salary" THEN 30000 ELSE doc[f]]
    ELSE doc

\* the upgrade function registered with version v, applied to a document
upgradeFn(v, doc) ==
    IF v = 2 THEN [f \in DOMAIN doc \cup {"salary"} |->
                      IF f = "salary" THEN 30000 ELSE doc[f]]
    ELSE IF v = 3 THEN [f \in DOMAIN doc \cup {"fullname"} |->
                      IF f = "fullname" THEN <<doc.firstname, " ", doc.lastname>>
                      ELSE doc[f]]
    ELSE doc

IsString(doc) == DOMAIN doc = {"string"}

Str(s) == [string |-> s]

\* schema.isValid(doc): against the version the document names, else the latest
isValid(schema, cv, doc) ==
    IF schema.kind = "MigratingSchema"
    THEN /\ ~IsString(doc)
         /\ LET v == IF "version" \in DOMAIN doc THEN doc.version ELSE cv
            IN  v \in 1..cv /\ Required(v) \subseteq DOMAIN doc
    ELSE IsString(doc)

\* schema.upgrade(doc): the upgrade functions of doc.version+1 .. currentVersion,
\* the version stamped after each
RECURSIVE upgrade(_, _, _)
upgrade(schema, cv, doc) ==
    IF schema.kind # "MigratingSchema" THEN doc
    ELSE IF "version" \notin DOMAIN doc THEN doc
    ELSE IF doc.version >= cv THEN doc
    ELSE LET next == upgradeFn(doc.version + 1, doc)
         IN  upgrade(schema, cv, [next EXCEPT !.version = doc.version + 1])

FieldOrder == <<"firstname", "fullname", "id", "lastname", "salary", "string",
                "type", "version">>

\* schema.serializationFn(doc): the canonical text of a document
serializationFn(doc) ==
    LET fields == SelectSeq(FieldOrder, LAMBDA f : f \in DOMAIN doc)
    IN  [i \in 1..Len(fields) |-> <<fields[i], doc[fields[i]]>>]

\* schema.deserializationFn(str)
deserializationFn(wire) ==
    [f \in {wire[i][1] : i \in DOMAIN wire} |->
        wire[CHOOSE i \in DOMAIN wire : wire[i][1] = f][2]]

----------------------------------------------------------------------------
(* RedisSet: construction and the write and read paths of one member.      *)

UuidText == <<"u1", "u2", "u3", "u4", "u5", "u6">>

\* RedisSet.newKey: `set-{${type}-${namespace}}-${uuid()}`
newKey(schema, namespace, uuid) ==
    LET type == IF schema # Undefined
                THEN slice(toLowerCase(schema[1].type), TypeLimit)
                ELSE StringType
        ns   == IF namespace # Undefined THEN namespace[1] ELSE "default"
    IN  <<"set-{">> \o type \o <<"-", ns, "}-", uuid>>

\* a database client, as a caller passes one and as every handle holds one
Tance == Some("tance")

\* new RedisSet({tance, id, schema, namespace, expirySeconds}); uuid is the value
\* uuid() returns if newKey is called. Without a client (null or undefined) the
\* constructor throws before it assigns anything, and there is no handle. The
\* commands of a handle travel on the connection of the client that calls.
RedisSet(tance, id, schema, namespace, expirySeconds, uuid) ==
    LET sch == IF schema = Undefined THEN StringSchema ELSE schema[1]
        ns  == IF namespace = Undefined \/ namespace[1] = "" THEN Some("") ELSE namespace
    IN  IF tance = Undefined
        THEN [error |-> "DocumentValidationError"]
        ELSE [schema        |-> sch,
              namespace     |-> ns,
              id            |-> IF id = Undefined \/ id[1] = <<>>
                                THEN newKey(Some(sch), ns, uuid) ELSE id[1],
              expirySeconds |-> expirySeconds]

\* `if(this.expirySeconds)`
HasExpiry(this) == this.expirySeconds # Undefined /\ this.expirySeconds[1] # 0

Put(doc, f, v) == [g \in DOMAIN doc \cup {f} |-> IF g = f THEN v ELSE doc[g]]

\* the caller's document after prepare has stamped it (prepare, lines 68-74)
Stamped(this, cv, doc) ==
    IF this.schema.kind = "MigratingSchema"
    THEN LET d1 == IF "id" \notin DOMAIN doc \/ doc.id = <<>>
                   THEN Put(doc, "id", this.id) ELSE doc
             d2 == Put(d1, "type", this.schema.type)
         IN  Put(d2, "version", cv)
    ELSE doc

\* RedisSet.prepare: the stamped document, and its wire text or the error thrown
prepare(this, cv, doc) ==
    LET d == Stamped(this, cv, doc)
    IN  IF ~isValid(this.schema, cv, d)
        THEN [doc |-> d, error |-> "DocumentValidationError", wire |-> <<>>]
        ELSE [doc |-> d, error |-> "", wire |-> serializationFn(d)]

\* mutant of postpare: the document is returned as it was stored
postpareAsStored(this, cv, serializedDoc) ==
    IF serializedDoc = Undefined THEN Undefined
    ELSE Some(deserializationFn(serializedDoc[1]))

\* RedisSet.postpare, on an optional wire text
postpare(this, cv, serializedDoc) ==
    IF serializedDoc = Undefined THEN Undefined
    ELSE Some(upgrade(this.schema, cv, deserializationFn(serializedDoc[1])))

\* an operand of a group operation: a raw store key, or a collection handle
KeyOperand(k) == [isString |-> TRUE, key |-> k, set |-> Undefined]

SetOperand(h) == [isString |-> FALSE, key |-> <<>>, set |-> Some(h)]

\* mutant of CrossSlot: the schema types are not compared
CrossSlotNamespaceOnly(this, set) == set.namespace # this.namespace

\* the check validateSetIds makes of one handle operand
CrossSlot(this, set) ==
    \/ set.namespace # this.namespace
    \/ set.schema.type # this.schema.type

\* RedisSet.validateSetIds: the keys of the operands, or CrossSlotError
validateSetIds(this, setIds) ==
    IF \E i \in DOMAIN setIds :
          ~setIds[i].isString /\ CrossSlot(this, setIds[i].set[1])
    THEN [error |-> "CrossSlotError", ids |-> <<>>]
    ELSE [error |-> "",
          ids |-> [i \in DOMAIN setIds |->
                     IF setIds[i].isString THEN setIds[i].key
                     ELSE setIds[i].set[1].id]]

----------------------------------------------------------------------------
(* The store, as the client sees it (specification, section 6): a command  *)
(* sent on a connection is executed after the commands sent before it on   *)
(* that connection, and its reply resumes whoever awaits it.               *)

Clients == {"c1", "c2"}

\* who awaits a command's reply: the call the client is in ("main"), an add that
\* modify started and did not await ("add"), or nobody ("none")
Command(name, this, cont, key, keys, members, seconds) ==
    [cmd |-> name, this |-> this, cont |-> cont, key |-> key, keys |-> keys,
     members |-> members, seconds |-> seconds]

Get(st, k) == IF k \in DOMAIN st THEN st[k] ELSE {}

WithKey(st, k, S) ==
    IF S = {} THEN [x \in DOMAIN st \ {k} |-> st[x]]
    ELSE [x \in DOMAIN st \cup {k} |-> IF x = k THEN S ELSE st[x]]

IsStoreCommand(cmd) == cmd.cmd \in {"sunionstore", "sinterstore", "sdiffstore"}

IsGroupCommand(cmd) == IsStoreCommand(cmd) \/ cmd.cmd \in {"sunion", "sinter", "sdiff"}

\* the set a group command computes from its source keys
Computed(st, cmd) ==
    LET first == Get(st, cmd.keys[1])
        rest  == {Get(st, cmd.keys[i]) : i \in 2..Len(cmd.keys)}
    IN  IF cmd.cmd \in {"sunion", "sunionstore"} THEN UNION ({first} \cup rest)
        ELSE IF cmd.cmd \in {"sinter", "sinterstore"}
             THEN {m \in first : \A S \in rest : m \in S}
        ELSE first \ UNION rest

\* the store's answer to a reading command
Reply(st, cmd) ==
    IF cmd.cmd = "smembers" THEN Get(st, cmd.key)
    ELSE IF IsGroupCommand(cmd) THEN Computed(st, cmd)
    ELSE {}

\* the replies the store may give: srandmember picks the members it returns,
\* as many distinct ones as asked for or all of them if there are fewer
Replies(st, cmd) ==
    IF cmd.cmd = "srandmember"
    THEN {S \in SUBSET Get(st, cmd.key) :
             Cardinality(S) = Min(cmd.seconds, Cardinality(Get(st, cmd.key)))}
    ELSE {Reply(st, cmd)}

\* a command the store refuses whatever its state: sadd with no member
Malformed(cmd) == cmd.cmd = "sadd" /\ cmd.members = <<>>

StoreAfter(st, cmd) ==
    IF cmd.cmd = "sadd" THEN WithKey(st, cmd.key, Get(st, cmd.key) \cup Range(cmd.members))
    ELSE IF cmd.cmd = "srem" THEN WithKey(st, cmd.key, Get(st, cmd.key) \ Range(cmd.members))
    ELSE IF IsStoreCommand(cmd) THEN WithKey(st, cmd.key, Computed(st, cmd))
    ELSE IF cmd.cmd = "del" THEN WithKey(st, cmd.key, {})
    ELSE IF cmd.cmd = "expire" /\ cmd.seconds <= 0 THEN WithKey(st, cmd.key, {})
    ELSE st

\* the expiries after a command: a key that is gone or rewritten loses its own,
\* expire sets it on a key that exists
TtlAfter(st, tl, cmd) ==
    LET after == StoreAfter(st, cmd)
        kept  == {k \in DOMAIN tl \cap DOMAIN after : ~(IsStoreCommand(cmd) /\ k = cmd.key)}
        setIt == cmd.cmd = "expire" /\ cmd.seconds > 0 /\ cmd.key \in DOMAIN after
    IN  [k \in kept \cup (IF setIt THEN {cmd.key} ELSE {}) |->
           IF setIt /\ k = cmd.key THEN cmd.seconds ELSE tl[k]]

----------------------------------------------------------------------------
(* RedisSet: what each method sends.                                       *)

NoKeys == <<>>

\* mutant of Sadd: the request carries the first member only
SaddFirstMember(this, cont, wires) ==
    Command("sadd", this, cont, this.id, NoKeys, SubSeq(wires, 1, Min(1, Len(wires))), 0)

\* tance.sadd(this.id, ...members): one request with all the members
Sadd(this, cont, wires) == Command("sadd", this, cont, this.id, NoKeys, wires, 0)

Srem(this, wire) == Command("srem", this, "none", this.id, NoKeys, <<wire>>, 0)

Smembers(this) == Command("smembers", this, "main", this.id, NoKeys, <<>>, 0)

Scard(this) == Command("scard", this, "main", this.id, NoKeys, <<>>, 0)

\* the number a command carries is the count of srandmember
Srandmember(this, n) == Command("srandmember", this, "main", this.id, NoKeys, <<>>, n)

Del(this) == Command("del", this, "main", this.id, NoKeys, <<>>, 0)

Sismember(this, wire) == Command("sismember", this, "main", this.id, NoKeys, <<wire>>, 0)

\* mutant of refreshExpiry: the expiry sent is a second short
refreshExpiryShort(this, cont) ==
    IF HasExpiry(this)
    THEN <<Command("expire", this, cont, this.id, NoKeys, <<>>, this.expirySeconds[1] - 1)>>
    ELSE <<>>

\* RedisSet.refreshExpiry: the commands it sends
refreshExpiry(this, cont) ==
    IF HasExpiry(this)
    THEN <<Command("expire", this, cont, this.id, NoKeys, <<>>, this.expirySeconds[1])>>
    ELSE <<>>

RECURSIVE Flatten(_)
Flatten(ss) == IF ss = <<>> THEN <<>> ELSE Head(ss) \o Flatten(Tail(ss))

\* the documents of an add argument after prepare has run over them in order,
\* stopping at the first that fails validation
RECURSIVE PreparedUpTo(_, _, _)
PreparedUpTo(this, cv, docs) ==
    IF docs = <<>> THEN <<>>
    ELSE LET p == prepare(this, cv, Head(docs))
         IN  IF p.error # "" THEN <<p.doc>> \o Tail(docs)
             ELSE <<p.doc>> \o PreparedUpTo(this, cv, Tail(docs))

\* mutant of AllValid: only the first document of a batch is validated
AllValidFirstOnly(this, cv, docs) ==
    docs = <<>> \/ prepare(this, cv, docs[1]).error = ""

\* whether prepare throws for no document of an add argument
AllValid(this, cv, docs) == \A i \in DOMAIN docs : prepare(this, cv, docs[i]).error = ""

\* mutant of Wires: a batch sends its first document only
WiresFirstOnly(this, cv, docs) ==
    IF docs = <<>> THEN <<>> ELSE <<prepare(this, cv, docs[1]).wire>>

Wires(this, cv, docs) == [i \in DOMAIN docs |-> prepare(this, cv, docs[i]).wire]

----------------------------------------------------------------------------
(* RedisSet.modify: the snapshot, the caller's change, the converging calls.*)

\* a value held in a JavaScript Set: a string is told apart by its text, an
\* object by its identity (which list it belongs to and its place in it)
Item(i, tag, val) ==
    [ref |-> IF IsString(val) THEN <<"string", 0>> ELSE <<tag, i>>, val |-> val]

Has(set, x) == \E i \in DOMAIN set : set[i] = x

\* new Set(list): the distinct values of the list, in order
RECURSIVE NewSet(_)
NewSet(list) ==
    IF list = <<>> THEN <<>>
    ELSE LET front == NewSet(SubSeq(list, 1, Len(list) - 1))
             last  == list[Len(list)]
         IN  IF Has(front, last) THEN front ELSE Append(front, last)

\* JSON.parse(JSON.stringify(list)): equal values, new objects
JsonCopy(list) ==
    [i \in DOMAIN list |-> Item(i, "copy", [f \in DOMAIN list[i].val |-> list[i].val[f]])]

\* whether a member carries the fields of document d
Matches(val, d) == \A f \in DOMAIN d : f \in DOMAIN val /\ val[f] = d[f]

\* the caller's changeFn applied to the working set: return it as it is, delete
\* the members that carry d, or add d
changeFn(fn, set) ==
    IF fn.kind = "delete" THEN SelectSeq(set, LAMBDA x : ~Matches(x.val, fn.doc))
    ELSE IF fn.kind = "add"
         THEN IF Has(set, Item(0, "new", fn.doc)) THEN set
              ELSE Append(set, Item(0, "new", fn.doc))
    ELSE set

\* items that are in originalSet but not in newSet are to be removed
itemsToRemove(originalSet, newSet) == SelectSeq(originalSet, LAMBDA x : ~Has(newSet, x))

\* items that are in newSet but not in originalSet are to be added
itemsToAdd(originalSet, newSet) == SelectSeq(newSet, LAMBDA x : ~Has(originalSet, x))

\* what `this.rem(item)` sends before its first await, its promise unobserved
RemUnawaited(this, cv, doc) ==
    LET p == prepare(this, cv, doc)
    IN  IF p.error # "" THEN <<>>
        ELSE <<Srem(this, p.wire)>> \o refreshExpiry(this, "none")

\* what `this.add(item)` sends before its first await, its promise unobserved
AddUnawaited(this, cv, doc) ==
    LET p == prepare(this, cv, doc)
    IN  IF p.error # "" THEN <<>> ELSE <<Sadd(this, "add", <<p.wire>>)>>

\* the converging calls of modify, none awaited (lines 150-151)
Convergence(this, cv, toRemove, toAdd) ==
    Flatten([i \in DOMAIN toRemove |-> RemUnawaited(this, cv, toRemove[i].val)])
    \o Flatten([i \in DOMAIN toAdd |-> AddUnawaited(this, cv, toAdd[i].val)])

\* mutant of modifyWrites: the converging calls are sent inside a transaction
modifyWritesInTransaction(this, cv, toRemove, toAdd) ==
    <<Command("multi", this, "none", this.id, NoKeys, <<>>, 0)>>
    \o Convergence(this, cv, toRemove, toAdd)
    \o <<Command("exec", this, "none", this.id, NoKeys, <<>>, 0)>>
    \o refreshExpiry(this, "main")

\* what modify sends once changeFn has returned (lines 150-155)
modifyWrites(this, cv, toRemove, toAdd) ==
    Convergence(this, cv, toRemove, toAdd) \o refreshExpiry(this, "main")

\* the objects of a set once this.rem and this.add have run prepare on the
\* touched ones: prepare stamps the very objects the sets hold
Prepared(this, cv, set, touched) ==
    [i \in DOMAIN set |->
        IF Has(touched, set[i]) THEN [set[i] EXCEPT !.val = Stamped(this, cv, @)]
        ELSE set[i]]

\* modify from the reply of smembers (the members in the order the store lists
\* them) to its last await; the sets are as they are when modify returns
modify(this, cv, fn, order) ==
    LET list        == [i \in DOMAIN order |->
                           Item(i, "orig", postpare(this, cv, Some(order[i]))[1])]
        copyList    == JsonCopy(list)
        originalSet == NewSet(list)
        newSet      == changeFn(fn, NewSet(copyList))
        toRemove    == itemsToRemove(originalSet, newSet)
        toAdd       == itemsToAdd(originalSet, newSet)
        touched     == toRemove \o toAdd
    IN  [original      |-> Prepared(this, cv, originalSet, touched),
         changed       |-> Prepared(this, cv, newSet, touched),
         itemsToRemove |-> Prepared(this, cv, toRemove, touched),
         itemsToAdd    |-> Prepared(this, cv, toAdd, touched),
         issued        |-> modifyWrites(this, cv, toRemove, toAdd)]

----------------------------------------------------------------------------
(* RedisSet: union, intersect, diff, their Store and StoreAt forms, copyTo.*)

GroupName(op, variant) ==
    (IF op = "union" THEN "sunion" ELSE IF op = "intersect" THEN "sinter" ELSE "sdiff")
    \o (IF variant = "" THEN "" ELSE "store")

\* mutant of StoreHandle: the new handle is given no namespace
StoreHandleNoNamespace(this, id, uuid) ==
    RedisSet(Tance, id, Some(this.schema), Undefined, this.expirySeconds, uuid)

\* the handle a Store form constructs (with a generated id) or a StoreAt form
\* and copyTo construct (with the caller's id)
StoreHandle(this, id, uuid) ==
    RedisSet(Tance, id, Some(this.schema), this.namespace, this.expirySeconds, uuid)

\* mutant of GroupCall: the command is sent before the operands are validated
GroupCallSendsFirst(this, op, variant, newSet, setIds) ==
    LET v == validateSetIds(this, setIds)
    IN  [error  |-> v.error,
         issued |-> <<Command(GroupName(op, variant), this, "main",
                              IF variant = "" THEN <<>> ELSE newSet.id,
                              <<this.id>>, <<>>, 0)>>]

\* the command a group operation sends, or the error it throws before sending
GroupCall(this, op, variant, newSet, setIds) ==
    LET v == validateSetIds(this, setIds)
    IN  IF v.error # "" THEN [error |-> v.error, issued |-> <<>>]
        ELSE [error  |-> "",
              issued |-> <<Command(GroupName(op, variant), this, "main",
                                   IF variant = "" THEN <<>> ELSE newSet.id,
                                   <<this.id>> \o v.ids, <<>>, 0)>>]

\* copyTo: sinterstore(newSet.id, this.id)
CopyCall(this, newSet) ==
    <<Command("sinterstore", this, "main", newSet.id, <<this.id>>, <<>>, 0)>>

----------------------------------------------------------------------------
(* The inputs the callers draw from.                                       *)

Charles == [firstname |-> "Charles", lastname |-> "Huckbreimer"]

Ada == [firstname |-> "Ada", lastname |-> "Byron"]

\* a document no version of the chain accepts: lastname is missing
Nameless == [firstname |-> "Charles"]

Documents(schema) ==
    IF schema.kind = "MigratingSchema" THEN {Charles, Ada, Nameless}
    ELSE {Str("x"), Str("y")}

RECURSIVE SeqsUpTo(_, _)
SeqsUpTo(S, n) ==
    IF n = 0 THEN {<<>>}
    ELSE LET shorter == SeqsUpTo(S, n - 1)
         IN  shorter \cup {Append(q, x) : q \in {r \in shorter : Len(r) = n - 1}, x \in S}

\* add(doc): null, one document, or a batch
AddArguments(schema) ==
    {[shape |-> "null", docs |-> <<>>]}
    \cup {[shape |-> "one", docs |-> <<d>>] : d \in Documents(schema)}
    \cup {[shape |-> "many", docs |-> q] : q \in SeqsUpTo(Documents(schema), MaxBatch)}

ChangeFns(schema) ==
    {[kind |-> "same", doc |-> Str("")]}
    \cup {[kind |-> k, doc |-> d] : k \in {"delete", "add"}, d \in Documents(schema)}

RawKeys == {<<"k1">>}

----------------------------------------------------------------------------
(* The calls of a client.  A client is in one call at a time; what a call    *)
(* leaves unawaited goes on while the next call runs.                      *)

\* arg is the caller's documents as the call has left them, given the same
\* documents as the caller built them
IdleProc ==
    [pc |-> "idle", op |-> "", this |-> Undefined, shape |-> "", arg |-> <<>>,
     wire |-> <<>>, members |-> {}, count |-> 0, fn |-> [kind |-> "", doc |-> Str("")],
     original |-> <<>>, changed |-> <<>>, itemsToRemove |-> <<>>, itemsToAdd |-> <<>>,
     variant |-> "", id |-> <<>>, setIds |-> <<>>, newSet |-> Undefined, error |-> "",
     given |-> <<>>, namespace |-> Undefined, fedBack |-> FALSE, found |-> FALSE]

\* the history once a call other than add, a rejected command or an expiry
\* has touched the store
Disturbed == [journal EXCEPT !.onlyAdds = FALSE]

\* the history once an add call has succeeded
Added(h, docs) ==
    [journal EXCEPT !.added = @ \cup {<<h.id, docs[i]>> : i \in DOMAIN docs}]

\* a modify of client o has read its snapshot of the key that cmd writes, and
\* its converging commands are not all executed: the commands modify sent are
\* the first of the client's queue, whatever the client has called since
Converging(o, cmd) ==
    /\ cmd.cmd \in {"sadd", "srem"}
    /\ \E i \in 1..Min(journal.converging[o], Len(pipe[o])) :
          pipe[o][i].cmd \in {"sadd", "srem"} /\ pipe[o][i].key = cmd.key

\* the converging writes of client o's modify that the store has yet to execute
PendingWrites(o) ==
    LET mine == SubSeq(pipe[o], 1, Min(journal.converging[o], Len(pipe[o])))
        IsWrite(x) == x.cmd \in {"sadd", "srem"}
        writes == SelectSeq(mine, IsWrite)
    IN  [i \in DOMAIN writes |-> <<writes[i].cmd, writes[i].members>>]

\* the history once the store has taken the next command of client c
Served(j, c) == [j EXCEPT !.converging[c] = IF @ > 0 THEN @ - 1 ELSE 0]

Free(c, limit) == proc[c].pc \in {"idle", "done", "failed"} /\ calls[c] < limit

Begin(op, h) == [IdleProc EXCEPT !.op = op, !.this = Some(h)]

Sent(c, cmds) == [pipe EXCEPT ![c] = @ \o cmds]

Started(c) == [calls EXCEPT ![c] = @ + 1]

\* add(doc) with argument a on collection h, to its first await
AddOf(c, h, a) ==
    LET b == [Begin("add", h) EXCEPT !.shape = a.shape, !.arg = a.docs,
                                     !.given = a.docs]
    IN  IF a.shape = "null"
        THEN /\ proc' = [proc EXCEPT ![c] =
                   [b EXCEPT !.pc = "failed", !.error = "DocumentValidationError"]]
             /\ pipe' = pipe
        ELSE IF ~AllValid(h, currentVersion, a.docs)
        THEN /\ proc' = [proc EXCEPT ![c] =
                   [b EXCEPT !.pc = "failed", !.error = "DocumentValidationError",
                             !.arg = PreparedUpTo(h, currentVersion, a.docs)]]
             /\ pipe' = pipe
        ELSE /\ proc' = [proc EXCEPT ![c] =
                   [b EXCEPT !.pc = "add.sadd",
                             !.arg = PreparedUpTo(h, currentVersion, a.docs)]]
             /\ pipe' = Sent(c, <<Sadd(h, "main", Wires(h, currentVersion, a.docs))>>)

\* add(doc) with null, one document or a batch
CallAdd(c, limit) ==
    /\ Free(c, limit)
    /\ \E h \in sets : \E a \in AddArguments(h.schema) : AddOf(c, h, a)
    /\ calls' = Started(c)
    /\ UNCHANGED <<store, ttl, uuids, faults, sets, currentVersion, journal>>

\* add(doc) with one document, to its first await
CallAddOne(c, limit) ==
    /\ Free(c, limit)
    /\ \E h \in sets : \E a \in {x \in AddArguments(h.schema) : x.shape = "one"} :
         AddOf(c, h, a)
    /\ calls' = Started(c)
    /\ UNCHANGED <<store, ttl, uuids, faults, sets, currentVersion, journal>>

\* the documents members() has just returned to client c from collection h
Seen(c, h) ==
    IF proc[c].op = "members" /\ proc[c].pc = "done" /\ proc[c].this = Some(h)
    THEN proc[c].members ELSE {}

\* rem(d) on collection h to its first await, or to its end when there is none
RemOf(c, h, d) ==
    LET p == prepare(h, currentVersion, d)
        b == [Begin("rem", h) EXCEPT !.shape = "one", !.arg = <<p.doc>>,
                                     !.given = <<d>>, !.fedBack = d \in Seen(c, h)]
    IN  IF p.error # ""
        THEN /\ proc' = [proc EXCEPT ![c] =
                   [b EXCEPT !.pc = "failed", !.error = p.error]]
             /\ pipe' = pipe
        ELSE /\ proc' = [proc EXCEPT ![c] =
                   [b EXCEPT !.pc = IF HasExpiry(h) THEN "rem.expire" ELSE "done",
                             !.wire = p.wire]]
             /\ pipe' = Sent(c, <<Srem(h, p.wire)>> \o refreshExpiry(h, "main"))

\* rem(doc) with a document the caller built
CallRem(c, limit) ==
    /\ Free(c, limit)
    /\ \E h \in sets : \E d \in Documents(h.schema) : RemOf(c, h, d)
    /\ calls' = Started(c)
    /\ journal' = Disturbed
    /\ UNCHANGED <<store, ttl, uuids, faults, sets, currentVersion>>

\* rem(doc) with a document members() has just returned
CallRemSeen(c, limit) ==
    /\ Free(c, limit)
    /\ \E h \in sets : \E d \in Seen(c, h) : RemOf(c, h, d)
    /\ calls' = Started(c)
    /\ journal' = Disturbed
    /\ UNCHANGED <<store, ttl, uuids, faults, sets, currentVersion>>

\* contains(obj) to its await, with a document the caller built or one that
\* members() has just returned
CallContains(c, limit) ==
    /\ Free(c, limit)
    /\ \E h \in sets : \E d \in Documents(h.schema) \cup Seen(c, h) :
         LET p == prepare(h, currentVersion, d)
             b == [Begin("contains", h) EXCEPT !.shape = "one", !.arg = <<p.doc>>,
                                               !.given = <<d>>, !.fedBack = d \in Seen(c, h)]
         IN  IF p.error # ""
             THEN /\ proc' = [proc EXCEPT ![c] =
                        [b EXCEPT !.pc = "failed", !.error = p.error]]
                  /\ pipe' = pipe
             ELSE /\ proc' = [proc EXCEPT ![c] =
                        [b EXCEPT !.pc = "contains.sismember", !.wire = p.wire]]
                  /\ pipe' = Sent(c, <<Sismember(h, p.wire)>>)
    /\ calls' = Started(c)
    /\ UNCHANGED <<store, ttl, uuids, faults, sets, currentVersion, journal>>

\* delete() and clear(), which is delete(): `return this.tance.del(this.id)`
CallDelete(c, limit) ==
    /\ Free(c, limit)
    /\ \E h \in sets, op \in {"delete", "clear"} :
         /\ proc' = [proc EXCEPT ![c] = [Begin(op, h) EXCEPT !.pc = "delete.del"]]
         /\ pipe' = Sent(c, <<Del(h)>>)
    /\ calls' = Started(c)
    /\ journal' = Disturbed
    /\ UNCHANGED <<store, ttl, uuids, faults, sets, currentVersion>>

\* schema.addVersion(next, upgradeFn): the chain's currentVersion goes up by one
AddVersion ==
    /\ currentVersion < ChainLength
    /\ currentVersion' = currentVersion + 1
    /\ UNCHANGED <<store, ttl, pipe, proc, calls, uuids, faults, sets, journal>>

\* members() to its await
CallMembers(c, limit) ==
    /\ Free(c, limit)
    /\ \E h \in sets :
         /\ proc' = [proc EXCEPT ![c] = [Begin("members", h) EXCEPT !.pc = "members.smembers"]]
         /\ pipe' = Sent(c, <<Smembers(h)>>)
    /\ calls' = Started(c)
    /\ UNCHANGED <<store, ttl, uuids, faults, sets, currentVersion, journal>>

\* randmember(n) to its await
CallRandmember(c, limit) ==
    /\ Free(c, limit)
    /\ \E h \in sets, n \in 1..MaxBatch :
         /\ proc' = [proc EXCEPT ![c] = [Begin("randmember", h) EXCEPT
                                             !.pc = "randmember.srandmember"]]
         /\ pipe' = Sent(c, <<Srandmember(h, n)>>)
    /\ calls' = Started(c)
    /\ UNCHANGED <<store, ttl, uuids, faults, sets, currentVersion, journal>>

\* count() to its await
CallCount(c, limit) ==
    /\ Free(c, limit)
    /\ \E h \in sets :
         /\ proc' = [proc EXCEPT ![c] = [Begin("count", h) EXCEPT !.pc = "count.scard"]]
         /\ pipe' = Sent(c, <<Scard(h)>>)
    /\ calls' = Started(c)
    /\ UNCHANGED <<store, ttl, uuids, faults, sets, currentVersion, journal>>

\* modify(changeFn) to the await of its members()
CallModify(c, limit) ==
    /\ Free(c, limit)
    /\ \E h \in sets : \E fn \in ChangeFns(h.schema) :
         /\ proc' = [proc EXCEPT ![c] =
               [Begin("modify", h) EXCEPT !.pc = "modify.smembers", !.fn = fn]]
         /\ pipe' = Sent(c, <<Smembers(h)>>)
    /\ calls' = Started(c)
    /\ journal' = Disturbed
    /\ UNCHANGED <<store, ttl, uuids, faults, sets, currentVersion>>


\* the ids a caller may pass to a StoreAt form or to copyTo
DestinationIds == RawKeys \cup {h.id : h \in sets}

\* the operands a caller may pass to a group operation: a collection's key as a
\* string, or its handle
Operands == {KeyOperand(h.id) : h \in sets} \cup {SetOperand(h) : h \in sets}

\* what a caller may pass to the constructor
SchemaArguments ==
    {Undefined, Some(MigratingSchema(Employee)), Some(MigratingSchema(LongType))}

NamespaceArguments == {Undefined, Some(""), Some("ns1")}

IdArguments == {Undefined} \cup {Some(k) : k \in RawKeys}

TanceArguments == {Undefined, Tance}

\* new RedisSet({tance, id, schema, namespace}): the caller holds the new handle,
\* or, without a client, the error and no handle
Construct(c, limit) ==
    /\ Free(c, limit)
    /\ \E tance \in TanceArguments, id \in IdArguments, schema \in SchemaArguments,
          namespace \in NamespaceArguments :
         LET h     == RedisSet(tance, id, schema, namespace, Undefined, UuidText[uuids + 1])
             given == [IdleProc EXCEPT !.op = "constructor", !.namespace = namespace,
                                       !.id = IF id = Undefined THEN <<>> ELSE id[1]]
         IN  IF tance = Undefined
             THEN /\ proc' = [proc EXCEPT ![c] =
                        [given EXCEPT !.pc = "failed", !.error = h.error]]
                  /\ UNCHANGED <<uuids, sets>>
             ELSE /\ id = Undefined => uuids < MaxUuid
                  /\ uuids' = IF id = Undefined THEN uuids + 1 ELSE uuids
                  /\ sets' = sets \cup {h}
                  /\ proc' = [proc EXCEPT ![c] =
                        [given EXCEPT !.pc = "done", !.this = Some(h)]]
    /\ calls' = Started(c)
    /\ UNCHANGED <<store, ttl, pipe, faults, currentVersion, journal>>

\* union, intersect, diff and their Store and StoreAt forms, to their await or to
\* the error validateSetIds throws
CallGroup(c, limit) ==
    /\ Free(c, limit)
    /\ \E h \in sets, op \in {"union", "intersect", "diff"},
          variant \in {"", "Store", "StoreAt"}, setIds \in SeqsUpTo(Operands, MaxOperands) :
         \E id \in (IF variant = "StoreAt" THEN DestinationIds ELSE {<<>>}) :
           LET newSet == StoreHandle(h, Some(id), UuidText[uuids + 1])
               g      == GroupCall(h, op, variant, newSet, setIds)
               b      == [Begin(op, h) EXCEPT !.variant = variant, !.id = id,
                                               !.setIds = setIds]
           IN  /\ variant = "Store" => uuids < MaxUuid
               /\ uuids' = IF variant = "Store" THEN uuids + 1 ELSE uuids
               /\ proc' = [proc EXCEPT ![c] =
                     IF g.error # "" THEN [b EXCEPT !.pc = "failed", !.error = g.error]
                     ELSE IF variant = "" THEN [b EXCEPT !.pc = "group.read"]
                     ELSE [b EXCEPT !.pc = "group.store", !.newSet = Some(newSet)]]
               /\ pipe' = Sent(c, g.issued)
    /\ calls' = Started(c)
    /\ journal' = Disturbed
    /\ UNCHANGED <<store, ttl, faults, sets, currentVersion>>

\* copyTo(id) to its await
CallCopyTo(c, limit) ==
    /\ Free(c, limit)
    /\ \E h \in sets, id \in DestinationIds :
         LET newSet == StoreHandle(h, Some(id), UuidText[uuids + 1])
         IN  /\ proc' = [proc EXCEPT ![c] =
                   [Begin("copyTo", h) EXCEPT !.pc = "group.store", !.variant = "StoreAt",
                                              !.id = id, !.newSet = Some(newSet)]]
             /\ pipe' = Sent(c, CopyCall(h, newSet))
    /\ calls' = Started(c)
    /\ journal' = Disturbed
    /\ UNCHANGED <<store, ttl, uuids, faults, sets, currentVersion>>

\* the documents a reading call returns for a reply
Postpared(this, cv, reply) == {postpare(this, cv, Some(w))[1] : w \in reply}

\* what the reply of the command at the head of c's connection resumes: the
\* client's call after it, and the commands sent before the next await
Resume(c, cmd, reply, order) ==
    LET p    == proc[c]
        this == cmd.this
        done == [p EXCEPT !.pc = "done"]
    IN  IF cmd.cont = "none" THEN [proc |-> p, issued |-> <<>>]
        ELSE IF cmd.cont = "add" THEN [proc |-> p, issued |-> refreshExpiry(this, "none")]
        ELSE IF p.pc = "add.sadd"
             THEN IF HasExpiry(this)
                  THEN [proc |-> [p EXCEPT !.pc = "add.expire"],
                        issued |-> refreshExpiry(this, "main")]
                  ELSE [proc |-> done, issued |-> <<>>]
        ELSE IF p.pc \in {"members.smembers", "randmember.srandmember", "group.read"}
             THEN [proc |-> [done EXCEPT !.members = Postpared(this, currentVersion, reply)],
                   issued |-> <<>>]
        ELSE IF p.pc = "count.scard"
             THEN [proc |-> [done EXCEPT !.count = Cardinality(Get(store, cmd.key))],
                   issued |-> <<>>]
        ELSE IF p.pc = "delete.del"
             THEN [proc |-> [done EXCEPT !.count = IF cmd.key \in DOMAIN store THEN 1 ELSE 0],
                   issued |-> <<>>]
        ELSE IF p.pc = "contains.sismember"
             THEN [proc |-> [done EXCEPT !.found = p.wire \in Get(store, cmd.key)],
                   issued |-> <<>>]
        ELSE IF p.pc = "modify.smembers"
             THEN LET m == modify(this, currentVersion, p.fn, order)
                  IN  [proc |-> [p EXCEPT !.pc = IF HasExpiry(this) THEN "modify.expire"
                                                 ELSE "done",
                                          !.original = m.original, !.changed = m.changed,
                                          !.itemsToRemove = m.itemsToRemove,
                                          !.itemsToAdd = m.itemsToAdd],
                       issued |-> m.issued]
        ELSE [proc |-> done, issued |-> <<>>]

\* a rejected command resumes whoever awaits it with the error
Rejected(c, cmd) ==
    IF cmd.cont = "main"
    THEN [proc[c] EXCEPT !.pc = "failed", !.error = "StoreError", !.newSet = Undefined]
    ELSE proc[c]

\* the store executes the next command of a connection and replies
Exec(c) ==
    /\ pipe[c] # <<>>
    /\ LET cmd == Head(pipe[c])
       IN  IF Malformed(cmd)
           THEN /\ proc' = [proc EXCEPT ![c] = Rejected(c, cmd)]
                /\ pipe' = [pipe EXCEPT ![c] = Tail(@)]
                /\ journal' = Served(journal, c)
                /\ UNCHANGED <<store, ttl, sets>>
           ELSE /\ store' = StoreAfter(store, cmd)
                /\ ttl' = TtlAfter(store, ttl, cmd)
                /\ \E reply \in Replies(store, cmd) :
                   \E order \in (IF proc[c].pc = "modify.smembers" /\ cmd.cont = "main"
                                 THEN Orders(reply) ELSE {<<>>}) :
                     LET r == Resume(c, cmd, reply, order)
                     IN  /\ proc' = [proc EXCEPT ![c] = r.proc]
                         /\ pipe' = [pipe EXCEPT ![c] = Tail(@) \o r.issued]
                         /\ sets' = sets
                         /\ journal' =
                              LET returned == IF /\ r.proc.op = "add" /\ r.proc.pc = "done"
                                                 /\ cmd.cont = "main"
                                              THEN Added(cmd.this, r.proc.arg)
                                              ELSE journal
                                  racing == {o \in Clients \ {c} : Converging(o, cmd)}
                              IN  [returned EXCEPT
                                     !.between = @ \cup {<<cmd.cmd, cmd.members>> : o \in racing},
                                     !.overtaken = @ \cup
                                        {[cmd |-> cmd.cmd, members |-> cmd.members,
                                          writes |-> PendingWrites(o)] : o \in racing},
                                     !.converging[c] =
                                        IF proc[c].pc = "modify.smembers" /\ cmd.cont = "main"
                                        THEN Len(r.issued)
                                        ELSE IF @ > 0 THEN @ - 1 ELSE 0]
    /\ UNCHANGED <<calls, uuids, faults, currentVersion>>

\* the store, or the connection to it, fails the next command of a connection
Reject(c) ==
    /\ pipe[c] # <<>>
    /\ faults < MaxFaults
    /\ faults' = faults + 1
    /\ proc' = [proc EXCEPT ![c] = Rejected(c, Head(pipe[c]))]
    /\ pipe' = [pipe EXCEPT ![c] = Tail(@)]
    /\ journal' = Served(Disturbed, c)
    /\ UNCHANGED <<store, ttl, calls, uuids, sets, currentVersion>>

\* a second passes: every expiry runs down, and a key whose expiry ran out is gone
Tick ==
    /\ DOMAIN ttl # {}
    /\ ttl' = [k \in {x \in DOMAIN ttl : ttl[x] > 1} |-> ttl[k] - 1]
    /\ store' = [k \in {x \in DOMAIN store : x \notin DOMAIN ttl \/ ttl[x] > 1} |-> store[k]]
    /\ journal' = [journal EXCEPT !.ranDown = TRUE,
                                   !.onlyAdds = @ /\ DOMAIN store' = DOMAIN store]
    /\ UNCHANGED <<pipe, proc, calls, uuids, faults, sets, currentVersion>>

----------------------------------------------------------------------------
(* The initial states and the specifications.                              *)

Expiries == {Undefined, Some(0), Some(MaxTicks)}

\* one collection, constructed without an id
OneSet == {{RedisSet(Tance, Undefined, schema, Some("ns1"), e, "u0")} :
              schema \in {Undefined, Some(MigratingSchema(Employee))}, e \in Expiries}

\* the members earlier add calls left under a collection's key: the valid
\* documents, as the collection prepares them (the key then has the collection's
\* expiry, when it has one)
Preloaded(h) ==
    {prepare(h, 1, d).wire : d \in {x \in Documents(h.schema) : prepare(h, 1, x).error = ""}}

InitWith(initial, preloaded) ==
    /\ sets \in initial
    /\ store = IF preloaded
               THEN [k \in RawKeys \cup {h.id : h \in sets} |->
                       IF k \in RawKeys THEN {serializationFn(Str("x"))}
                       ELSE Preloaded(CHOOSE h \in sets : h.id = k)]
               ELSE [k \in {} |-> {}]
    /\ ttl = IF preloaded
             THEN [k \in {h.id : h \in {x \in sets : HasExpiry(x)}} |->
                     (CHOOSE h \in sets : h.id = k).expirySeconds[1]]
             ELSE [k \in {} |-> 0]
    /\ pipe = [c \in Clients |-> <<>>]
    /\ proc = [c \in Clients |-> IdleProc]
    /\ calls = [c \in Clients |-> 0]
    /\ uuids = 0
    /\ faults = 0
    /\ currentVersion = 1
    /\ journal = [added |-> {}, onlyAdds |-> TRUE, ranDown |-> FALSE, between |-> {},
                  overtaken |-> {}, converging |-> [c \in Clients |-> 0]]

\* one client adds, removes and reads while time passes
InitCrud == InitWith(OneSet, FALSE)

NextCrud ==
    \/ CallAdd("c1", MaxCalls)
    \/ CallRem("c1", MaxCalls)
    \/ CallMembers("c1", MaxCalls)
    \/ CallCount("c1", MaxCalls)
    \/ CallModify("c1", MaxCalls)
    \/ CallDelete("c1", MaxCalls)
    \/ Exec("c1")
    \/ Tick

SpecCrud == InitCrud /\ [][NextCrud]_vars

\* the collections of the group scenario: one of employees in ns1, and a second
\* of either type in either namespace, both with an expiry
TwoSets ==
    {{RedisSet(Tance, Undefined, Some(MigratingSchema(Employee)), Some("ns1"), Some(MaxTicks), "u0"),
      RedisSet(Tance, Undefined, Some(MigratingSchema(type)), Some(ns), Some(MaxTicks), "u9")} :
        type \in {Employee, Pet}, ns \in {"ns1", "ns2"}}

\* one client combines collections whose keys, and a raw key, hold members already
InitGroup == InitWith(TwoSets, TRUE)

NextGroup ==
    \/ CallGroup("c1", MaxLateCalls)
    \/ CallCopyTo("c1", MaxLateCalls)
    \/ Exec("c1")

SpecGroup == InitGroup /\ [][NextGroup]_vars

\* a collection without expiry, shared by two clients
SharedSet == {{RedisSet(Tance, Undefined, schema, Some("ns1"), Undefined, "u0")} :
                 schema \in {Undefined, Some(MigratingSchema(Employee))}}

\* one client modifies the collection while another adds to it and removes from it
InitRace == InitWith(SharedSet, TRUE)

NextRace ==
    \/ CallModify("c1", Min(MaxLateCalls, MaxCalls - calls["c2"]))
    \/ CallAddOne("c2", MaxCalls - calls["c1"])
    \/ CallRem("c2", MaxCalls - calls["c1"])
    \/ Exec("c1")
    \/ Exec("c2")

SpecRace == InitRace /\ [][NextRace]_vars

\* a collection of employees without expiry
VersionedSet ==
    {{RedisSet(Tance, Undefined, Some(MigratingSchema(Employee)), Some("ns1"), Undefined, "u0")}}

\* one client writes and reads while versions are added to the schema chain
InitVersions == InitWith(VersionedSet, FALSE)

NextVersions ==
    \/ CallAdd("c1", MaxCalls)
    \/ CallMembers("c1", MaxCalls)
    \/ CallRandmember("c1", MaxCalls)
    \/ CallContains("c1", MaxCalls)
    \/ CallRemSeen("c1", MaxCalls)
    \/ CallGroup("c1", MaxGroupCalls)
    \/ AddVersion
    \/ Exec("c1")

SpecVersions == InitVersions /\ [][NextVersions]_vars

\* one client adds to an empty collection while another reads it
InitReaders == InitWith(SharedSet, FALSE)

NextReaders ==
    \/ CallAdd("c1", MaxLateCalls)
    \/ CallMembers("c2", MaxLateCalls)
    \/ CallCount("c2", MaxLateCalls)
    \/ CallContains("c2", MaxLateCalls)
    \/ Exec("c1")
    \/ Exec("c2")

SpecReaders == InitReaders /\ [][NextReaders]_vars

\* a caller constructs collections
InitKeys == InitWith({{}}, FALSE)

NextKeys == Construct("c1", MaxCalls)

SpecKeys == InitKeys /\ [][NextKeys]_vars

\* a collection whose key holds members, and a store that may fail a command
InitFault == InitWith(OneSet, TRUE)

NextFault ==
    \/ CallAdd("c1", MaxLateCalls)
    \/ CallRem("c1", MaxLateCalls)
    \/ Exec("c1")
    \/ Reject("c1")

SpecFault == InitFault /\ [][NextFault]_vars

----------------------------------------------------------------------------
(* Claims about add, rem and members.                                      *)

Finished(c, op) == proc[c].op = op /\ proc[c].pc = "done"

\* the documents the successful add calls gave to the collection at key k
AddedTo(k) == {e[2] : e \in {x \in journal.added : x[1] = k}}

\* C4: after successful add calls only (single documents or batches; nothing
\* removed, deleted or expired), members() returns exactly the distinct documents
\* that were added, and count() is their number: a document equal to one already
\* present adds nothing.
C4_MembersAreTheAddedDocuments ==
    \A c \in Clients :
        journal.onlyAdds =>
            /\ Finished(c, "members") => proc[c].members = AddedTo(proc[c].this[1].id)
            /\ Finished(c, "count") =>
                  proc[c].count = Cardinality(AddedTo(proc[c].this[1].id))

\* C4 witness: members() has returned after a batch with a repeated document and
\* another add were made, and returned fewer documents than were passed
C4_Witness ==
    /\ journal.onlyAdds
    /\ Finished("c1", "members")
    /\ calls["c1"] >= 3
    /\ Cardinality(proc["c1"].members) = 2

\* C5 (as claimed): when rem(d) has returned, d is no member of the stored set.
C5_RemovedWhenRemReturns ==
    \A c \in Clients :
        Finished(c, "rem") => proc[c].wire \notin Get(store, proc[c].this[1].id)

----------------------------------------------------------------------------
(* Claims about modify.                                                    *)

\* what the caller means by a document: its fields other than the ones prepare stamps
Logical(doc) == [f \in DOMAIN doc \ {"id", "type", "version"} |-> doc[f]]

Values(set) == {set[i].val : i \in DOMAIN set}

NoOtherClient(c) == \A o \in Clients \ {c} : calls[o] = 0

\* C6 (as claimed): when modify has returned and no other client has touched the
\* collection, the store holds the set changeFn returned, and no converging add or
\* rem has failed (else modify would have failed).
C6_ModifyAwaitsConvergence ==
    \A c \in Clients :
        (Finished(c, "modify") /\ NoOtherClient(c)) =>
            LET this == proc[c].this[1]
            IN  /\ {Logical(d) : d \in Postpared(this, currentVersion, Get(store, this.id))}
                     = {Logical(d) : d \in Values(proc[c].changed)}
                /\ \A d \in Values(proc[c].itemsToAdd) \cup Values(proc[c].itemsToRemove) :
                     prepare(this, currentVersion, d).error = ""

\* C7 (as claimed): modify calls rem only for members the returned set no longer
\* has, and add only for members the snapshot did not have.
C7_ModifyMinimalCalls ==
    \A c \in Clients :
        (proc[c].op = "modify" /\ proc[c].pc \in {"modify.expire", "done"}) =>
            /\ \A x \in Values(proc[c].itemsToRemove) : x \notin Values(proc[c].changed)
            /\ \A y \in Values(proc[c].itemsToAdd) : y \notin Values(proc[c].original)

----------------------------------------------------------------------------
(* Claims about the expiry.                                                *)

\* C9: on a collection with expirySeconds set (as the code tests it: neither
\* undefined nor 0), when add, rem or modify returns, the key, if it exists, has
\* its full expiry again; every expire sent names the collection's key and its
\* expirySeconds, and a collection without expirySeconds sends none.
C9_ExpiryRefreshed ==
    [][\A c \in Clients :
          /\ (/\ proc'[c].pc = "done"
              /\ proc[c].pc # "done" \/ calls'[c] # calls[c]
              /\ proc'[c].op \in {"add", "rem", "modify"}
              /\ HasExpiry(proc'[c].this[1])
              /\ proc'[c].this[1].id \in DOMAIN store')
             => /\ proc'[c].this[1].id \in DOMAIN ttl'
                /\ ttl'[proc'[c].this[1].id] = proc'[c].this[1].expirySeconds[1]
          /\ \A i \in DOMAIN pipe'[c] :
                pipe'[c][i].cmd = "expire"
                => /\ HasExpiry(pipe'[c][i].this)
                   /\ pipe'[c][i].key = pipe'[c][i].this.id
                   /\ pipe'[c][i].seconds = pipe'[c][i].this.expirySeconds[1]]_vars

\* C9 witness: an expiry had run down, and a later add has returned with the key's
\* expiry full again
C9_Witness ==
    /\ journal.ranDown
    /\ Finished("c1", "add")
    /\ calls["c1"] >= 2
    /\ HasExpiry(proc["c1"].this[1])
    /\ proc["c1"].this[1].id \in DOMAIN ttl
    /\ ttl[proc["c1"].this[1].id] = proc["c1"].this[1].expirySeconds[1]


----------------------------------------------------------------------------
(* Claims about modify against another client.                             *)

\* the last of the writes that touches member w, or nothing
LastWrite(writes, w) ==
    LET Touches(x) == w \in Range(x[2])
        touching == SelectSeq(writes, Touches)
    IN  IF touching = <<>> THEN Undefined ELSE Some(touching[Len(touching)][1])

\* C8: modify brackets its snapshot and its writes in no transaction. Every command
\* a client sends is a plain set or expiry command, executed on its own; and when one
\* client has run one modify and another one add or rem, whose command the store
\* executed after modify's snapshot and before the last of modify's writes, then
\* once both are through, each member of that command is in the store exactly if
\* the last write modify still had to come for it was a sadd, and, if modify had
\* none to come, exactly if the other client's command was a sadd: the other
\* client's add or rem is lost wherever modify writes the member after it.
C8_NoTransaction ==
    /\ \A c \in Clients : \A cmd \in Range(pipe[c]) :
          cmd.cmd \in {"sadd", "srem", "smembers", "scard", "expire", "del", "sismember",
                       "srandmember", "sunion", "sinter", "sdiff",
                       "sunionstore", "sinterstore", "sdiffstore"}
    /\ \A c \in Clients : \A o \in Clients \ {c} :
          (/\ calls[c] = 1 /\ proc[c].op = "modify"
           /\ calls[o] = 1 /\ proc[o].pc = "done"
           /\ pipe[c] = <<>> /\ pipe[o] = <<>>)
          => \A e \in journal.overtaken : \A w \in Range(e.members) :
               LET last == LastWrite(e.writes, w)
               IN  (w \in Get(store, proc[c].this[1].id))
                     <=> (IF last = Undefined THEN e.cmd = "sadd" ELSE last[1] = "sadd")

\* C8 witness: c1 has run one modify, c2 one add and one rem, and the store executed
\* c2's sadd and c2's srem after modify had read its snapshot and before its writes
\* were through; all three calls have returned, nothing is pending, and both are
\* lost: the document c2 added is not in the store, the member c2 removed is
C8_Witness ==
    LET this == proc["c1"].this[1]
    IN  /\ Finished("c1", "modify") /\ calls["c1"] = 1
        /\ Finished("c2", "rem") /\ calls["c2"] = 2
        /\ pipe["c1"] = <<>> /\ pipe["c2"] = <<>>
        /\ \E d \in AddedTo(this.id) :
              LET w == prepare(this, currentVersion, d).wire
              IN  /\ <<"sadd", <<w>>>> \in journal.between
                  /\ w \notin Get(store, this.id)
        /\ <<"srem", <<proc["c2"].wire>>>> \in journal.between
        /\ proc["c2"].wire \in Get(store, this.id)

----------------------------------------------------------------------------
(* Claims about union, intersect and diff.                                 *)

GroupOps == {"union", "intersect", "diff"}

\* some handle operand of the call is of another namespace or schema type
Mismatch(p) ==
    \E i \in DOMAIN p.setIds :
        /\ ~p.setIds[i].isString
        /\ \/ p.setIds[i].set[1].namespace # p.this[1].namespace
           \/ p.setIds[i].set[1].schema.type # p.this[1].schema.type

\* C1: union, intersect, diff and their Store and StoreAt forms fail with
\* CrossSlotError when a handle operand differs from the collection in namespace
\* or in schema type, and do not when every handle operand matches in both.
C1_CrossSlotIffMismatch ==
    \A c \in Clients :
        proc[c].op \in GroupOps =>
            /\ Mismatch(proc[c]) => proc[c].pc = "failed" /\ proc[c].error = "CrossSlotError"
            /\ ~Mismatch(proc[c]) => proc[c].pc # "failed" /\ proc[c].error = ""

\* C1 witness: diffStoreAt has failed on an operand of the same namespace and
\* another schema type
C1_Witness ==
    /\ proc["c1"].op = "diff" /\ proc["c1"].variant = "StoreAt"
    /\ proc["c1"].error = "CrossSlotError"
    /\ \A i \in DOMAIN proc["c1"].setIds :
          /\ ~proc["c1"].setIds[i].isString
          /\ proc["c1"].setIds[i].set[1].namespace = proc["c1"].this[1].namespace

\* C2: the step in which a group operation fails with CrossSlotError sends no
\* command and leaves the store, its expiries and the destination key as they were.
C2_NothingSentOnCrossSlot ==
    [][\A c \in Clients :
          (calls'[c] # calls[c] /\ proc'[c].error = "CrossSlotError")
          => /\ pipe' = pipe
             /\ store' = store
             /\ ttl' = ttl]_vars

\* C2 witness: a StoreAt form has failed with CrossSlotError, its destination a
\* key that holds members
C2_Witness ==
    /\ proc["c1"].error = "CrossSlotError"
    /\ proc["c1"].variant = "StoreAt"
    /\ proc["c1"].id \in DOMAIN store
    /\ pipe["c1"] = <<>>

\* the part of a key the store routes by: what the braces enclose, else the key
Marker(key) ==
    IF Len(key) > 3 /\ key[1] = "set-{" /\ key[Len(key) - 1] = "}-"
    THEN SubSeq(key, 2, Len(key) - 2)
    ELSE key

\* key k belongs to the routing group of collection this: it is the key of a
\* collection of the same namespace and schema type, or carries their marker
InGroup(k, this) ==
    \/ \E h \in sets : /\ h.id = k
                       /\ h.namespace = this.namespace
                       /\ h.schema.type = this.schema.type
    \/ Marker(k) = Marker(newKey(Some(this.schema), this.namespace, ""))

KeysNamed(cmd) == Range(cmd.keys) \cup (IF IsStoreCommand(cmd) THEN {cmd.key} ELSE {})

\* C3 (as claimed): every key a group command names, the destination included,
\* belongs to the collection's routing group, whatever the operands.
C3_OnlyOneRoutingGroup ==
    \A c \in Clients : \A cmd \in Range(pipe[c]) :
        IsGroupCommand(cmd) => \A k \in KeysNamed(cmd) : InGroup(k, cmd.this)

\* C3 (amended): in every group command the first key is the collection's own,
\* the key taken from a handle operand is that of a collection of the same
\* namespace and schema type, and the destination a Store form generates carries
\* the collection's marker; string operands and the ids given to StoreAt forms and
\* to copyTo are passed on as they are.
C3_HandleOperandsShareGroup ==
    \A c \in Clients : \A cmd \in Range(pipe[c]) :
        IsGroupCommand(cmd) =>
            LET p == proc[c]
            IN  /\ cmd.keys[1] = cmd.this.id
                /\ Len(cmd.keys) = Len(p.setIds) + 1
                /\ \A i \in DOMAIN p.setIds :
                      IF p.setIds[i].isString THEN cmd.keys[i + 1] = p.setIds[i].key
                      ELSE /\ cmd.keys[i + 1] = p.setIds[i].set[1].id
                           /\ p.setIds[i].set[1].namespace = cmd.this.namespace
                           /\ p.setIds[i].set[1].schema.type = cmd.this.schema.type
                /\ p.variant = "Store" =>
                      Marker(cmd.key) = Marker(newKey(Some(cmd.this.schema),
                                                      cmd.this.namespace, ""))
                /\ p.variant = "StoreAt" => cmd.key = p.id

\* C3 witness: unionStore is pending on the handle of another collection of the
\* same namespace and schema type
C3_Witness ==
    \E cmd \in Range(pipe["c1"]) :
        /\ cmd.cmd = "sunionstore"
        /\ proc["c1"].variant = "Store"
        /\ Len(cmd.keys) = 2
        /\ ~proc["c1"].setIds[1].isString
        /\ cmd.keys[2] # cmd.keys[1]

\* C10 (as claimed): when a Store form, a StoreAt form or copyTo returns on a
\* collection with expirySeconds set, the destination key, if it exists, has an
\* expiry of expirySeconds.
C10_DestinationCarriesExpiry ==
    [][\A c \in Clients :
          (/\ proc'[c].pc = "done" /\ proc[c].pc = "group.store"
           /\ HasExpiry(proc'[c].this[1])
           /\ proc'[c].newSet[1].id \in DOMAIN store')
          => /\ proc'[c].newSet[1].id \in DOMAIN ttl'
             /\ ttl'[proc'[c].newSet[1].id] = proc'[c].this[1].expirySeconds[1]]_vars

----------------------------------------------------------------------------
(* Claims about what add checks and what it does to its argument.          *)

\* prepare throws for some document of the argument as the caller built it
SomeInvalid(this, cv, docs) == \E i \in DOMAIN docs : prepare(this, cv, docs[i]).error # ""

\* C12: add fails with DocumentValidationError exactly when its argument is null
\* or prepare rejects an element of it, and the step in which it fails sends no
\* command (no sadd for any element, no expire) and leaves the store and its
\* expiries as they were; an add that does not fail so sends one sadd.
C12_InvalidAddSendsNothing ==
    [][\A c \in Clients :
          (calls'[c] # calls[c] /\ proc'[c].op = "add") =>
             LET p   == proc'[c]
                 bad == p.shape = "null"
                        \/ SomeInvalid(p.this[1], currentVersion, p.given)
             IN  /\ bad <=> (p.pc = "failed" /\ p.error = "DocumentValidationError")
                 /\ bad => (pipe' = pipe /\ store' = store /\ ttl' = ttl)
                 /\ ~bad => /\ Len(pipe'[c]) = Len(pipe[c]) + 1
                            /\ pipe'[c][Len(pipe'[c])].cmd = "sadd"]_vars

\* C12 witness: on a key that holds a member, a batch whose first document is
\* valid and whose second is not has failed, nothing of it pending
C12_Witness ==
    /\ proc["c1"].op = "add" /\ proc["c1"].pc = "failed"
    /\ proc["c1"].error = "DocumentValidationError"
    /\ Len(proc["c1"].given) = 2
    /\ prepare(proc["c1"].this[1], currentVersion, proc["c1"].given[1]).error = ""
    /\ pipe["c1"] = <<>>
    /\ Cardinality(Get(store, proc["c1"].this[1].id)) = 1

\* C17 (as claimed): when add, rem or contains has returned, the caller's
\* document is as the caller built it: no id, type or version was put into it.
C17_CallerDocumentUnchanged ==
    \A c \in Clients :
        (proc[c].op \in {"add", "rem", "contains"} /\ proc[c].pc = "done")
            => proc[c].arg = proc[c].given

----------------------------------------------------------------------------
(* Claims about a store that fails a command.                              *)

\* C11 (as claimed): when the store rejects the expire that add or rem awaits,
\* its sadd or srem having been executed, the call still returns its document.
C11_ExpireFailureNonFatal ==
    [][\A c \in Clients :
          (/\ proc[c].pc \in {"add.expire", "rem.expire"}
           /\ pipe[c] # <<>>
           /\ Head(pipe[c]).cmd = "expire" /\ Head(pipe[c]).cont = "main"
           /\ faults = 0 /\ faults' = 1)
          => /\ proc'[c].pc = "done"
             /\ proc'[c].error = ""]_vars

----------------------------------------------------------------------------
(* Claims about the generated key.                                         *)

\* the type segment the key format prescribes: the schema type in lower case,
\* its first 18 characters
TypeSegment(type) ==
    IF type = Employee THEN <<"e", "m", "p">>
    ELSE IF type = LongType
         THEN <<"e", "m", "p", "l", "o", "y", "e", "e", "o", "f", "t", "h", "e",
                "m", "o", "n", "t", "h">>
    ELSE type

\* C13 (as claimed): a collection constructed without an id has the key
\* set-{<type>-<namespace>}-<suffix>, <type> the schema type in lower case cut to
\* 18 characters, <namespace> the caller's namespace, or "default" when the caller
\* gave none.
C13_GeneratedKeyFormat ==
    \A c \in Clients :
        (Finished(c, "constructor") /\ proc[c].id = <<>>) =>
            LET h  == proc[c].this[1]
                ns == IF proc[c].namespace = Undefined THEN "default"
                      ELSE proc[c].namespace[1]
            IN  h.id = <<"set-{">> \o TypeSegment(h.schema.type)
                         \o <<"-", ns, "}-", h.id[Len(h.id)]>>

----------------------------------------------------------------------------
(* Claims about versions.                                                  *)

\* the documents stored under the key of collection h
Stored(h) == {deserializationFn(w) : w \in Get(store, h.id)}

\* C14: every document members, randmember, union, intersect or diff returns from a
\* version-aware collection has the chain's currentVersion as its version,
\* whatever version it was written with; postpare of an absent member is absent.
C14_ReadAtCurrentVersion ==
    [][\A c \in Clients :
          (/\ proc[c].pc \in {"members.smembers", "randmember.srandmember", "group.read"}
           /\ proc'[c].pc = "done"
           /\ proc'[c].this[1].schema.kind = "MigratingSchema")
          => /\ \A d \in proc'[c].members :
                   "version" \in DOMAIN d /\ d.version = currentVersion
             /\ postpare(proc'[c].this[1], currentVersion, Undefined) = Undefined]_vars

\* C14 witness: with the chain at version 3, union has returned a document at
\* version 3 from a key that holds a member written at version 1
C14_Witness ==
    /\ Finished("c1", "union") /\ proc["c1"].variant = ""
    /\ currentVersion = 3
    /\ \E d \in Stored(proc["c1"].this[1]) : d.version = 1
    /\ \E d \in proc["c1"].members : d.version = 3

\* C15: for every stored document d, written at version v, and the chain at
\* version n >= v, upgrade(d) is at version n, carries what the upgrade functions
\* of versions v+1..n add (salary 30000 from version 2, fullname built from first
\* and last name from version 3) and the fields of d otherwise, and upgrade of
\* the result returns it unchanged.
C15_UpgradeReachesLatest ==
    \A h \in sets : \A d \in Stored(h) :
        (h.schema.kind = "MigratingSchema" /\ d.version <= currentVersion) =>
            LET u == upgrade(h.schema, currentVersion, d)
            IN  /\ u.version = currentVersion
                /\ upgrade(h.schema, currentVersion, u) = u
                /\ \A f \in DOMAIN d \ {"version"} : f \in DOMAIN u /\ u[f] = d[f]
                /\ DOMAIN u = DOMAIN d
                              \cup (IF d.version < 2 /\ 2 <= currentVersion
                                    THEN {"salary"} ELSE {})
                              \cup (IF d.version < 3 /\ 3 <= currentVersion
                                    THEN {"fullname"} ELSE {})
                /\ (d.version < 2 /\ 2 <= currentVersion) => u.salary = 30000
                /\ (d.version < 3 /\ 3 <= currentVersion)
                      => u.fullname = <<d.firstname, " ", d.lastname>>

\* C15 witness: the employee written at version 1 has been read at version 3,
\* with salary 30000 and the full name Charles Huckbreimer
C15_Witness ==
    /\ Finished("c1", "members")
    /\ \E d \in Stored(proc["c1"].this[1]) : d.version = 1 /\ d.firstname = "Charles"
    /\ \E d \in proc["c1"].members :
          /\ d.version = 3
          /\ d.salary = 30000
          /\ d.fullname = <<"Charles", " ", "Huckbreimer">>

\* C18 (as claimed): for a document d that members() has just returned,
\* contains(d) is true, and rem(d), once its commands are executed, has removed
\* the member that was read as d.
C18_ReadResultsFeedBack ==
    \A c \in Clients :
        /\ (Finished(c, "contains") /\ proc[c].fedBack) => proc[c].found
        /\ (Finished(c, "rem") /\ proc[c].fedBack /\ pipe[c] = <<>>)
              => \A w \in Get(store, proc[c].this[1].id) :
                    postpare(proc[c].this[1], proc[c].given[1].version, Some(w))[1]
                        # proc[c].given[1]

----------------------------------------------------------------------------
(* Claims about a batch and its readers.                                   *)

\* the members an add call asks the store to hold
BatchOf(p) == {prepare(p.this[1], currentVersion, p.given[i]).wire : i \in DOMAIN p.given}

\* C16: a step that puts members under a key puts there, at once, all the members
\* of one add call's batch that the key did not hold, and members, count and
\* contains answer from the key as one such step left it: no reader sees a
\* non-empty part of a batch's new members without the rest.
C16_BatchIsOneRequest ==
    [][/\ \A k \in DOMAIN store' :
             LET new == Get(store', k) \ Get(store, k)
             IN  new # {} =>
                   \E c \in Clients :
                      /\ proc[c].op = "add" /\ proc[c].pc = "add.sadd"
                      /\ proc[c].this[1].id = k
                      /\ new = BatchOf(proc[c]) \ Get(store, k)
       /\ \A c \in Clients :
             LET p == proc'[c]
                 S == Get(store, p.this[1].id)
             IN  /\ (proc[c].pc = "members.smembers" /\ p.pc = "done")
                       => p.members = Postpared(p.this[1], currentVersion, S)
                 /\ (proc[c].pc = "count.scard" /\ p.pc = "done")
                       => p.count = Cardinality(S)
                 /\ (proc[c].pc = "contains.sismember" /\ p.pc = "done")
                       => p.found = (p.wire \in S)]_vars

\* C16 witness: the one add call made was a batch of two different documents on
\* an empty key, and the other client's members() has returned both
C16_Witness ==
    /\ proc["c1"].op = "add" /\ calls["c1"] = 1
    /\ Len(proc["c1"].given) = 2
    /\ Cardinality(BatchOf(proc["c1"])) = 2
    /\ Finished("c2", "members")
    /\ Cardinality(proc["c2"].members) = 2

----------------------------------------------------------------------------
(* Claims about equal documents in two collections.                        *)

\* the documents of a result that are the caller's document d
Copies(result, d) == {x \in result : Logical(x) = d}

\* C19 (as claimed): when the same caller document, without an id, was added to
\* collections A and B of one namespace and schema type, A.intersect(B) returns
\* it, A.diff(B) does not, and A.union(B) returns it once.
C19_EqualDocumentsShareMember ==
    \A c \in Clients :
        LET p == proc[c]
        IN  (/\ p.op \in GroupOps /\ p.pc = "done" /\ p.variant = ""
             /\ Len(p.setIds) = 1
             /\ ~p.setIds[1].isString
             /\ p.setIds[1].set[1].id # p.this[1].id
             /\ prepare(p.this[1], 1, Charles).wire \in Get(store, p.this[1].id)
             /\ prepare(p.setIds[1].set[1], 1, Charles).wire
                    \in Get(store, p.setIds[1].set[1].id))
            => /\ p.op = "intersect" => Copies(p.members, Charles) # {}
               /\ p.op = "diff" => Copies(p.members, Charles) = {}
               /\ p.op = "union" => Cardinality(Copies(p.members, Charles)) = 1

====
